---- MODULE Spec2Model ----
(***************************************************************************)
(* jeflog: a stack of open tasks (TASKS, behind a Mutex), an activity flag *)
(* (SPINNING, an AtomicBool) and a background spin thread that repaints    *)
(* the spinner of every open task.  Caller threads call __start_task__ and *)
(* __end_task__; each step below is one lock-delimited piece of src/lib.rs.*)
(***************************************************************************)
EXTENDS Integers, Sequences, FiniteSets, TLC

\* ---------------------------------------------------------------- bounds
NCallers == 2
MaxStarts == 4
MaxEnds == 3

Callers == 1..NCallers
Messages == {"build", "compile"}

\* the three glyph strings handed to __end_task__ by pass!, warn! and fail!
PassSymbol == "ESC[32;1m(check)ESC[0m"
WarnSymbol == "ESC[33;1m(triangle)ESC[0m"
FailSymbol == "ESC[31;1m(cross)ESC[0m"
Symbols == {PassSymbol, WarnSymbol, FailSymbol}

\* ------------------------------------------------------- terminal writes
\* One element of the byte stream written to stdout: an escape sequence, a
\* run of literal text, or a newline.
Tok(op, n, s) == [op |-> op, n |-> n, s |-> s]
NL == Tok("NL", 0, "")
SaveCursor == Tok("ESC[s", 0, "")
RestoreCursor == Tok("ESC[u", 0, "")
EraseLine == Tok("ESC[K", 0, "")
CursorUp(n) == Tok("ESC[nA", n, "")
CursorDown(n) == Tok("ESC[nB", n, "")
CursorBack(n) == Tok("ESC[nD", n, "")
CursorColumn(n) == Tok("ESC[nG", n, "")
YellowBold == Tok("ESC[33;1m", 0, "")
ResetFormat == Tok("ESC[0m", 0, "")
Text(s) == Tok("text", 0, s)

BranchGlyph == "(branch)"
BarGlyph == "(bar)"
LeafGlyph == "(leaf)(dash) "

RECURSIVE Repeat(_, _)
Repeat(seq, k) == IF k <= 0 THEN <<>> ELSE seq \o Repeat(seq, k - 1)

RECURSIVE Spaces(_)
Spaces(k) == IF k <= 0 THEN "" ELSE " " \o Spaces(k - 1)

\* ------------------------------------------------------------ task stack
Task(row) == [row_offset |-> row]

IncrementNone(ts) == ts
Increment(ts) == [i \in 1..Len(ts) |-> Task(ts[i].row_offset + 1)]

PushAtOne(ts) == Append(ts, Task(1))
Push(ts) == Append(ts, Task(0))

PopKeep(ts) == ts
PopFirst(ts) == IF ts = <<>> THEN ts ELSE Tail(ts)
PopClear(ts) == <<>>
Pop(ts) == IF ts = <<>> THEN ts ELSE SubSeq(ts, 1, Len(ts) - 1)

\* the newline __start_task__ writes before anything else
StartNewlineMissing == <<>>
StartNewline == <<NL>>

\* what __start_task__ writes; ts is the stack before the call
StartWrites(ts, message) ==
    LET inc == Increment(ts)
        last_row == inc[Len(inc)].row_offset
        connector ==
            IF inc = <<>> THEN <<>>
            ELSE <<SaveCursor>>
                 \o (IF last_row > 1
                     THEN <<CursorUp(last_row - 1),
                            CursorColumn((Len(inc) - 1) * 5 + 3),
                            Text(BranchGlyph)>>
                     ELSE <<>>)
                 \o Repeat(<<CursorBack(1), CursorDown(1), Text(BarGlyph)>>,
                           last_row - 1)
                 \o <<RestoreCursor>>
        pushed == Push(inc)
        leaf ==
            IF Len(pushed) > 1
            THEN <<Text(Spaces((Len(pushed) - 2) * 5 + 2)), Text(LeafGlyph)>>
            ELSE <<>>
    IN  StartNewline \o connector \o leaf
        \o <<YellowBold, Text("-"), ResetFormat, Text(" "), Text(message)>>

\* the column of the symbol __end_task__ writes; rest is the stack after the pop
EndColumnBeforePop(rest) == (Len(rest) + 1) * 5 + 1
EndColumn(rest) == Len(rest) * 5 + 1

\* the cursor restore of __end_task__ for a popped task at the given row
EndRestoreAlways(row) == <<RestoreCursor>>
EndRestore(row) == IF row # 0 THEN <<RestoreCursor>> ELSE <<>>

\* the closing newline of __end_task__; rest is the stack after the pop
EndTrailerAlways(rest) == <<NL>>
EndTrailer(rest) == IF Len(rest) = 0 THEN <<NL>> ELSE <<>>

\* what __end_task__ writes; ts is the stack before the call
EndWritesPositional(ts, symbol, message) ==
    LET rest == Pop(ts)
        row == IF ts = <<>> THEN 0 ELSE ts[Len(ts)].row_offset
        column == EndColumn(rest)
    IN  <<SaveCursor>>
        \o (IF row > 0 THEN <<CursorUp(row)>> ELSE <<>>)
        \o <<CursorColumn(column), Text(symbol), Text(" "), EraseLine,
             Text(message)>>
        \o EndRestore(row)
        \o EndTrailer(rest)
EndWrites(ts, symbol, message) ==
    LET rest == Pop(ts)
        row == ts[Len(ts)].row_offset
        column == EndColumn(rest)
        body ==
            IF ts # <<>>
            THEN <<SaveCursor>>
                 \o (IF row > 0 THEN <<CursorUp(row)>> ELSE <<>>)
                 \o <<CursorColumn(column), Text(symbol), Text(" "),
                      EraseLine, Text(message)>>
                 \o EndRestore(row)
            ELSE <<Text(symbol), Text(" "), Text(message), NL>>
    IN  body \o EndTrailer(rest)

\* the spinner's next frame
NextSpinnerBackwards(spinner) ==
    CASE spinner = "-" -> "/"
      [] spinner = "/" -> "|"
      [] spinner = "|" -> "\\"
      [] spinner = "\\" -> "-"
      [] OTHER -> "-"
NextSpinner(spinner) ==
    CASE spinner = "-" -> "\\"
      [] spinner = "\\" -> "|"
      [] spinner = "|" -> "/"
      [] spinner = "/" -> "-"
      [] OTHER -> "-"

\* what one pass of the spin loop writes
RECURSIVE SpinWritesFrom(_, _, _, _)
SpinWritesFrom(ts, i, column, spinner) ==
    IF i > Len(ts) THEN <<>>
    ELSE <<SaveCursor>>
         \o (IF ts[i].row_offset > 0 THEN <<CursorUp(ts[i].row_offset)>> ELSE <<>>)
         \o <<CursorColumn(column), YellowBold, Text(spinner), ResetFormat,
              RestoreCursor>>
         \o SpinWritesFrom(ts, i + 1, column + 5, spinner)
SpinWrites(ts, spinner) == SpinWritesFrom(ts, 1, 1, spinner)

\* Mutex::lock returns once no thread holds the guard (l is the holder)
UnlockedAlways(l) == TRUE
Unlocked(l) == l = 0

\* AtomicBool::compare_exchange: the new value and whether it succeeded
CompareExchangeBlind(current, expected, new) == [ok |-> TRUE, value |-> new]
CompareExchangeNoSet(current, expected, new) ==
    [ok |-> (current = expected), value |-> current]
CompareExchange(current, expected, new) ==
    IF current = expected
    THEN [ok |-> TRUE, value |-> new]
    ELSE [ok |-> FALSE, value |-> current]

\* the spin loop's exit test
LoopEndsEarly(ts) == Len(ts) <= 1
LoopEnds(ts) == Len(ts) = 0

\* the value spin stores into SPINNING after its loop
StoredStale == TRUE
StoredAfterLoop == FALSE

\* -------------------------------------------------------------- terminal
\* How the terminal reads the writes (the escapes are the ones the comments
\* of __end_task__ and spin spell out).  A cursor is a line y, counted
\* downwards from the line the operation began on, a column x, and the
\* position kept by ESC[s.  The column an operation begins at is not
\* tracked: every column used below follows a newline or an ESC[nG.
Width(s) ==
    IF s \in Symbols \/ s = BranchGlyph \/ s = BarGlyph THEN 1
    ELSE IF s = LeafGlyph THEN 3
    ELSE Len(s)

CursorStart == [y |-> 0, x |-> 1, sy |-> 0, sx |-> 1]

Move(cur, tok) ==
    CASE tok.op = "NL" -> [cur EXCEPT !.y = @ + 1, !.x = 1]
      [] tok.op = "ESC[s" -> [cur EXCEPT !.sy = cur.y, !.sx = cur.x]
      [] tok.op = "ESC[u" -> [cur EXCEPT !.y = cur.sy, !.x = cur.sx]
      [] tok.op = "ESC[nA" -> [cur EXCEPT !.y = @ - tok.n]
      [] tok.op = "ESC[nB" -> [cur EXCEPT !.y = @ + tok.n]
      [] tok.op = "ESC[nD" -> [cur EXCEPT !.x = IF @ - tok.n < 1 THEN 1 ELSE @ - tok.n]
      [] tok.op = "ESC[nG" -> [cur EXCEPT !.x = tok.n]
      [] tok.op = "text" -> [cur EXCEPT !.x = @ + Width(tok.s)]
      [] OTHER -> cur

\* the cursor just before the i-th write of o, and after all of o (the
\* singleton set makes the earlier cursor a value, computed once)
RECURSIVE CursorBefore(_, _)
CursorBefore(o, i) ==
    IF i <= 1 THEN CursorStart
    ELSE LET moved == {Move(c, o[i - 1]) : c \in {CursorBefore(o, i - 1)}}
         IN  CHOOSE r \in moved : TRUE
CursorAfter(o) == CursorBefore(o, Len(o) + 1)

\* The connector glyphs visible on the lines of the open tree: cells
\* [y, x, ch], ch a connector glyph whose first column is x.
ConnectorGlyphs == {BranchGlyph, BarGlyph, LeafGlyph}

PaintOne(cells, cur, tok) ==
    CASE tok.op = "text" ->
            {c \in cells : ~(c.y = cur.y /\ c.x >= cur.x
                             /\ c.x < cur.x + Width(tok.s))}
            \cup (IF tok.s \in ConnectorGlyphs
                  THEN {[y |-> cur.y, x |-> cur.x, ch |-> tok.s]}
                  ELSE {})
      [] tok.op = "ESC[K" -> {c \in cells : ~(c.y = cur.y /\ c.x >= cur.x)}
      [] OTHER -> cells

\* one write applied to the cursor and the cells, and all writes of o from
\* the i-th on
PaintStep(st, tok) ==
    [cur |-> Move(st.cur, tok), cells |-> PaintOne(st.cells, st.cur, tok)]

RECURSIVE PaintFrom(_, _, _)
PaintFrom(st, o, i) ==
    IF i > Len(o) THEN st
    ELSE LET next == {PaintStep(s, o[i]) : s \in {st}}
         IN  PaintFrom(CHOOSE p \in next : TRUE, o, i + 1)

\* the screen after the writes o, seen from the line the cursor ends on:
\* scr holds cells [up, x, ch], up the number of lines above the cursor's
\* line; only the lines below the root task's line are kept
Painted(scr, o, ts) ==
    LET before == {[y |-> 0 - c.up, x |-> c.x, ch |-> c.ch] : c \in scr}
        ends == {PaintFrom([cur |-> CursorStart, cells |-> before], o, 1)}
        seen == UNION {{[up |-> r.cur.y - c.y, x |-> c.x, ch |-> c.ch] : c \in r.cells} :
                          r \in ends}
    IN  IF ts = <<>> THEN {}
        ELSE {c \in seen : c.up >= 0 /\ c.up < ts[1].row_offset}

\* lines between each open task's line and the cursor's line after the writes o
Lowered(bel, o) ==
    LET all == {[i \in 1..Len(bel) |-> bel[i] + down] : down \in {CursorAfter(o).y}}
    IN  CHOOSE q \in all : TRUE

\* the line the marker of a new task is written on, below the cursor's start
MarkerIndex(o) == CHOOSE i \in 1..Len(o) : o[i] = YellowBold
MarkerLine(o) == CursorBefore(o, MarkerIndex(o)).y

DropLast(q) == IF q = <<>> THEN q ELSE SubSeq(q, 1, Len(q) - 1)

\* ------------------------------------------------------------------ state
VARIABLES
    tasks,      \* TASKS: the stack of open tasks
    SPINNING,   \* the activity flag
    lock,       \* holder of the TASKS mutex: 0 free, c a caller, -a spin thread a
    pc,         \* each caller thread's position
    anim,       \* the spin threads spawned so far: position and spinner glyph
    out,        \* what the most recent operation wrote to stdout
    nStarts,    \* history: pushes performed
    nEnds,      \* history: __end_task__ calls performed
    misnested,  \* history: some __end_task__ found the stack empty
    born,       \* history: for each open task, nStarts right after its push
    emptied,    \* history: the stack has been empty since the last spawn
    refills,    \* history: pushes onto an empty stack
    below,      \* terminal: for each open task, lines from its line to the cursor's
    screen,     \* terminal: connector glyphs on the lines of the open tree
    kids,       \* history: for each open task, the born numbers of its children
    poisoned    \* the TASKS mutex is poisoned: a thread panicked holding its guard

vars == <<tasks, SPINNING, lock, pc, anim, out, nStarts, nEnds, misnested,
          born, emptied, refills, below, screen, kids, poisoned>>

Init ==
    /\ tasks = <<>>
    /\ SPINNING = FALSE
    /\ lock = 0
    /\ pc = [c \in Callers |-> "idle"]
    /\ anim = <<>>
    /\ out = <<>>
    /\ nStarts = 0
    /\ nEnds = 0
    /\ misnested = FALSE
    /\ born = <<>>
    /\ emptied = TRUE
    /\ refills = 0
    /\ below = <<>>
    /\ screen = {}
    /\ kids = <<>>
    /\ poisoned = FALSE

\* ------------------------------------------------------- __start_task__
\* lines 59-90: lock TASKS, shift every open task up a row, write, push; the
\* mutex is not poisoned and no write panics (otherwise StartPoisoned,
\* StartPanics, StartPanicsAfterPush)
StartLock(c, message) ==
    /\ pc[c] = "idle"
    /\ nStarts < MaxStarts
    /\ Unlocked(lock)
    /\ ~poisoned
    /\ lock' = c
    /\ tasks' = Push(Increment(tasks))
    /\ \E w \in {StartWrites(tasks, message)} :
           /\ out' = w
           /\ below' = Append(Lowered(below, w), CursorAfter(w).y - MarkerLine(w))
           /\ screen' = Painted(screen, w, Push(Increment(tasks)))
    /\ pc' = [pc EXCEPT ![c] = "start_cas"]
    /\ nStarts' = nStarts + 1
    /\ born' = Append(born, nStarts + 1)
    /\ refills' = IF tasks = <<>> THEN refills + 1 ELSE refills
    /\ kids' = IF kids = <<>> THEN <<{}>>
               ELSE Append([kids EXCEPT ![Len(kids)] = @ \cup {nStarts + 1}], {})
    /\ UNCHANGED <<SPINNING, anim, nEnds, misnested, emptied, poisoned>>

\* lines 94-96: claim the flag, spawn spin if it was clear
StartCas(c) ==
    /\ pc[c] = "start_cas"
    /\ LET r == CompareExchange(SPINNING, FALSE, TRUE)
       IN  /\ SPINNING' = r.value
           /\ anim' = IF r.ok
                      THEN Append(anim, [pc |-> "top", spinner |-> "-"])
                      ELSE anim
           /\ emptied' = IF r.ok THEN FALSE ELSE emptied
    /\ pc' = [pc EXCEPT ![c] = "start_ret"]
    /\ UNCHANGED <<tasks, lock, out, nStarts, nEnds, misnested, born, refills>>
    /\ UNCHANGED <<below, screen, kids, poisoned>>

\* line 97: the guard is dropped on return
StartRet(c) ==
    /\ pc[c] = "start_ret"
    /\ lock' = 0
    /\ pc' = [pc EXCEPT ![c] = "idle"]
    /\ UNCHANGED <<tasks, SPINNING, anim, out, nStarts, nEnds, misnested,
                   born, emptied, refills>>
    /\ UNCHANGED <<below, screen, kids, poisoned>>

\* --------------------------------------------------------- __end_task__
\* lines 101-134: lock TASKS, pop, write; the mutex is not poisoned and no
\* write panics (otherwise EndPoisoned, EndPanicsAtFallback, EndPanicsAtPrint,
\* EndPanicsAtTrailer)
EndLock(c, symbol, message) ==
    /\ pc[c] = "idle"
    /\ nEnds < MaxEnds
    /\ Unlocked(lock)
    /\ ~poisoned
    /\ lock' = c
    /\ tasks' = Pop(tasks)
    /\ \E w \in {EndWrites(tasks, symbol, message)} :
           /\ out' = w
           /\ below' = Lowered(DropLast(below), w)
           /\ screen' = Painted(screen, w, Pop(tasks))
    /\ pc' = [pc EXCEPT ![c] = "end_ret"]
    /\ nEnds' = nEnds + 1
    /\ misnested' = (misnested \/ tasks = <<>>)
    /\ born' = IF born = <<>> THEN born ELSE SubSeq(born, 1, Len(born) - 1)
    /\ emptied' = (emptied \/ Pop(tasks) = <<>>)
    /\ kids' = DropLast(kids)
    /\ UNCHANGED <<SPINNING, anim, nStarts, refills, poisoned>>

\* line 135: the guard is dropped on return
EndRet(c) ==
    /\ pc[c] = "end_ret"
    /\ lock' = 0
    /\ pc' = [pc EXCEPT ![c] = "idle"]
    /\ UNCHANGED <<tasks, SPINNING, anim, out, nStarts, nEnds, misnested,
                   born, emptied, refills>>
    /\ UNCHANGED <<below, screen, kids, poisoned>>

\* ------------------------------------------------------------------ spin
\* line 141: lock TASKS at the top of the loop; the mutex is not poisoned
\* (otherwise SpinPoisoned)
SpinLock(a) ==
    /\ a \in 1..Len(anim)
    /\ anim[a].pc = "top"
    /\ Unlocked(lock)
    /\ ~poisoned
    /\ lock' = -a
    /\ anim' = [anim EXCEPT ![a].pc = "check"]
    /\ UNCHANGED <<tasks, SPINNING, pc, out, nStarts, nEnds, misnested,
                   born, emptied, refills>>
    /\ UNCHANGED <<below, screen, kids, poisoned>>

\* lines 144-146: no tasks left, leave the loop (the guard is dropped)
SpinBreak(a) ==
    /\ a \in 1..Len(anim)
    /\ anim[a].pc = "check"
    /\ LoopEnds(tasks)
    /\ lock' = 0
    /\ anim' = [anim EXCEPT ![a].pc = "store"]
    /\ UNCHANGED <<tasks, SPINNING, pc, out, nStarts, nEnds, misnested,
                   born, emptied, refills>>
    /\ UNCHANGED <<below, screen, kids, poisoned>>

\* lines 148-183: repaint every open task, advance the spinner; no write
\* panics (otherwise SpinPanics)
SpinRender(a) ==
    /\ a \in 1..Len(anim)
    /\ anim[a].pc = "check"
    /\ ~LoopEnds(tasks)
    /\ \E w \in {SpinWrites(tasks, anim[a].spinner)} :
           /\ out' = w
           /\ below' = Lowered(below, w)
           /\ screen' = Painted(screen, w, tasks)
    /\ anim' = [anim EXCEPT ![a].pc = "drop",
                            ![a].spinner = NextSpinner(anim[a].spinner)]
    /\ UNCHANGED <<tasks, SPINNING, lock, pc, nStarts, nEnds, misnested,
                   born, emptied, refills, kids, poisoned>>

\* line 186: drop the guard before sleeping
SpinDropKeepsLock(a) ==
    /\ a \in 1..Len(anim)
    /\ anim[a].pc = "drop"
    /\ anim' = [anim EXCEPT ![a].pc = "sleep"]
    /\ UNCHANGED <<tasks, SPINNING, lock, pc, out, nStarts, nEnds, misnested,
                   born, emptied, refills>>
    /\ UNCHANGED <<below, screen, kids, poisoned>>
SpinDrop(a) ==
    /\ a \in 1..Len(anim)
    /\ anim[a].pc = "drop"
    /\ lock' = 0
    /\ anim' = [anim EXCEPT ![a].pc = "sleep"]
    /\ UNCHANGED <<tasks, SPINNING, pc, out, nStarts, nEnds, misnested,
                   born, emptied, refills>>
    /\ UNCHANGED <<below, screen, kids, poisoned>>

\* line 189: the sleep ends, back to the top of the loop
SpinWake(a) ==
    /\ a \in 1..Len(anim)
    /\ anim[a].pc = "sleep"
    /\ anim' = [anim EXCEPT ![a].pc = "top"]
    /\ UNCHANGED <<tasks, SPINNING, lock, pc, out, nStarts, nEnds, misnested,
                   born, emptied, refills>>
    /\ UNCHANGED <<below, screen, kids, poisoned>>

\* line 194: clear the flag, the thread ends
SpinStore(a) ==
    /\ a \in 1..Len(anim)
    /\ anim[a].pc = "store"
    /\ SPINNING' = StoredAfterLoop
    /\ anim' = [anim EXCEPT ![a].pc = "done"]
    /\ UNCHANGED <<tasks, lock, pc, out, nStarts, nEnds, misnested, born,
                   emptied, refills>>
    /\ UNCHANGED <<below, screen, kids, poisoned>>

CallerStep ==
    \E c \in Callers :
        \/ \E m \in Messages : StartLock(c, m)
        \/ StartCas(c)
        \/ StartRet(c)
        \/ \E s \in Symbols, m \in Messages : EndLock(c, s, m)
        \/ EndRet(c)

SpinStep ==
    \E a \in 1..MaxStarts :
        \/ SpinLock(a)
        \/ SpinBreak(a)
        \/ SpinRender(a)
        \/ SpinDrop(a)
        \/ SpinWake(a)
        \/ SpinStore(a)

Next == CallerStep \/ SpinStep

Spec == Init /\ [][Next]_vars

\* per-thread fairness: a spin thread that can run does run, and a caller
\* inside __start_task__ or __end_task__ finishes the call
SpinThread(a) ==
    \/ SpinLock(a)
    \/ SpinBreak(a)
    \/ SpinRender(a)
    \/ SpinDrop(a)
    \/ SpinWake(a)
    \/ SpinStore(a)

CallReturns(c) == StartCas(c) \/ StartRet(c) \/ EndRet(c)

FairSpec ==
    /\ Spec
    /\ \A a \in 1..MaxStarts : WF_vars(SpinThread(a))
    /\ \A c \in Callers : WF_vars(CallReturns(c))

\* ---------------------------------------------------------------- panics
\* println! and print! panic when a write to stdout fails. println! always
\* writes its line through. print! of a text without a newline writes only
\* when the text does not fit into the room left in stdout's buffer; the
\* result of every flush is discarded (lines 90, 126, 174), so a failed flush
\* leaves its bytes in the buffer and later texts find less room. The number
\* of bytes held there is not counted (it depends on the lengths of the
\* messages and on which flushes failed): whether a print! finds room, and
\* whether a write fails, is the environment's choice. A panic unwinds with
\* the guard of TASKS alive, which poisons the mutex, and lock().unwrap()
\* panics on a poisoned mutex.

\* lines 66-80: println!() or a print! of the connectors fails after the row
\* offsets were raised (lines 61-64) and before the push
StartPanics(c) ==
    /\ pc[c] = "idle"
    /\ nStarts < MaxStarts
    /\ Unlocked(lock)
    /\ ~poisoned
    /\ tasks' = Increment(tasks)
    /\ out' = <<>>
    /\ poisoned' = TRUE
    /\ pc' = [pc EXCEPT ![c] = "start_panicked"]
    /\ UNCHANGED <<SPINNING, lock, anim, nStarts, nEnds, misnested, born,
                   emptied, refills, below, screen, kids>>

\* lines 84-89: the print! of the leaf or of the marker and message fails
\* after the push, before the compare-exchange: the task stays on the stack
\* and no spin thread is spawned for it
StartPanicsAfterPush(c, message) ==
    /\ pc[c] = "idle"
    /\ nStarts < MaxStarts
    /\ Unlocked(lock)
    /\ ~poisoned
    /\ tasks' = Push(Increment(tasks))
    /\ \E w \in {DropLast(StartWrites(tasks, message))} :
           /\ out' = w
           /\ below' = Append(Lowered(below, w), CursorAfter(w).y - MarkerLine(w))
           /\ screen' = Painted(screen, w, Push(Increment(tasks)))
    /\ poisoned' = TRUE
    /\ pc' = [pc EXCEPT ![c] = "start_panicked"]
    /\ nStarts' = nStarts + 1
    /\ born' = Append(born, nStarts + 1)
    /\ refills' = IF tasks = <<>> THEN refills + 1 ELSE refills
    /\ kids' = IF kids = <<>> THEN <<{}>>
               ELSE Append([kids EXCEPT ![Len(kids)] = @ \cup {nStarts + 1}], {})
    /\ UNCHANGED <<SPINNING, lock, anim, nEnds, misnested, emptied>>

\* line 129: the fallback println! fails, the stack was empty
EndPanicsAtFallback(c) ==
    /\ pc[c] = "idle"
    /\ nEnds < MaxEnds
    /\ Unlocked(lock)
    /\ ~poisoned
    /\ Pop(tasks) = tasks
    /\ out' = <<>>
    /\ poisoned' = TRUE
    /\ pc' = [pc EXCEPT ![c] = "end_panicked"]
    /\ nEnds' = nEnds + 1
    /\ misnested' = TRUE
    /\ UNCHANGED <<tasks, SPINNING, lock, anim, nStarts, born, emptied,
                   refills, below, screen, kids>>

\* lines 113-123: a print! fails after the pop, whether or not a task stays
\* open
EndPanicsAtPrint(c) ==
    /\ pc[c] = "idle"
    /\ nEnds < MaxEnds
    /\ Unlocked(lock)
    /\ ~poisoned
    /\ tasks # <<>>
    /\ tasks' = Pop(tasks)
    /\ out' = <<>>
    /\ below' = DropLast(below)
    /\ screen' = Painted(screen, <<>>, Pop(tasks))
    /\ poisoned' = TRUE
    /\ pc' = [pc EXCEPT ![c] = "end_panicked"]
    /\ nEnds' = nEnds + 1
    /\ born' = IF born = <<>> THEN born ELSE SubSeq(born, 1, Len(born) - 1)
    /\ emptied' = (emptied \/ Pop(tasks) = <<>>)
    /\ kids' = DropLast(kids)
    /\ UNCHANGED <<SPINNING, lock, anim, nStarts, misnested, refills>>

\* line 133: the trailing println!() fails after the writes before it, the
\* stack is empty after the pop
EndPanicsAtTrailer(c, symbol, message) ==
    /\ pc[c] = "idle"
    /\ nEnds < MaxEnds
    /\ Unlocked(lock)
    /\ ~poisoned
    /\ Pop(tasks) = <<>>
    /\ tasks' = Pop(tasks)
    /\ \E w \in {DropLast(EndWrites(tasks, symbol, message))} :
           /\ out' = w
           /\ below' = Lowered(DropLast(below), w)
           /\ screen' = Painted(screen, w, Pop(tasks))
    /\ poisoned' = TRUE
    /\ pc' = [pc EXCEPT ![c] = "end_panicked"]
    /\ nEnds' = nEnds + 1
    /\ misnested' = (misnested \/ tasks = <<>>)
    /\ born' = IF born = <<>> THEN born ELSE SubSeq(born, 1, Len(born) - 1)
    /\ emptied' = TRUE
    /\ kids' = DropLast(kids)
    /\ UNCHANGED <<SPINNING, lock, anim, nStarts, refills>>

\* lines 59 and 101: lock().unwrap() on the poisoned mutex
StartPoisoned(c) ==
    /\ pc[c] = "idle"
    /\ Unlocked(lock)
    /\ poisoned
    /\ pc' = [pc EXCEPT ![c] = "start_panicked"]
    /\ UNCHANGED <<tasks, SPINNING, lock, anim, out, nStarts, nEnds, misnested,
                   born, emptied, refills, below, screen, kids, poisoned>>

EndPoisoned(c) ==
    /\ pc[c] = "idle"
    /\ Unlocked(lock)
    /\ poisoned
    /\ pc' = [pc EXCEPT ![c] = "end_panicked"]
    /\ UNCHANGED <<tasks, SPINNING, lock, anim, out, nStarts, nEnds, misnested,
                   born, emptied, refills, below, screen, kids, poisoned>>

\* line 141: the spin thread dies at lock().unwrap(), SPINNING stays as it is
SpinPoisoned(a) ==
    /\ a \in 1..Len(anim)
    /\ anim[a].pc = "top"
    /\ Unlocked(lock)
    /\ poisoned
    /\ anim' = [anim EXCEPT ![a].pc = "panicked"]
    /\ UNCHANGED <<tasks, SPINNING, lock, pc, out, nStarts, nEnds, misnested,
                   born, emptied, refills, below, screen, kids, poisoned>>

\* lines 160-166: the print! of a pass fails; the spin thread dies with the
\* guard alive, SPINNING stays as it is
SpinPanics(a) ==
    /\ a \in 1..Len(anim)
    /\ anim[a].pc = "check"
    /\ ~LoopEnds(tasks)
    /\ out' = <<>>
    /\ lock' = 0
    /\ poisoned' = TRUE
    /\ anim' = [anim EXCEPT ![a].pc = "panicked"]
    /\ UNCHANGED <<tasks, SPINNING, pc, nStarts, nEnds, misnested, born,
                   emptied, refills, below, screen, kids>>

PanicStep ==
    \/ \E c \in Callers :
           \/ StartPanics(c)
           \/ \E m \in Messages : StartPanicsAfterPush(c, m)
           \/ EndPanicsAtFallback(c)
           \/ EndPanicsAtPrint(c)
           \/ \E s \in Symbols, m \in Messages : EndPanicsAtTrailer(c, s, m)
           \/ StartPoisoned(c)
           \/ EndPoisoned(c)
    \/ \E a \in 1..MaxStarts :
           \/ SpinPanics(a)
           \/ SpinPoisoned(a)

\* the program when writes to stdout may fail
PanicNext == Next \/ PanicStep

PanicSpec == Init /\ [][PanicNext]_vars

\* ----------------------------------------------------------------- claims
\* spin threads that have been spawned and have not yet left their loop
InLoop == {"top", "check", "drop", "sleep"}
ActiveLoops == {a \in 1..Len(anim) : anim[a].pc \in InLoop}

\* starts whose compare-exchange has been executed
StartsPastCas == nStarts - Cardinality({c \in Callers : pc[c] = "start_cas"})

\* caller c takes the step that locks, pushes and writes / locks, pops and writes
StartStepOf(c) == pc[c] = "idle" /\ pc'[c] = "start_cas"
EndStepOf(c) == pc[c] = "idle" /\ pc'[c] = "end_ret"

\* C1: at most one spin thread is inside its loop at any time
AtMostOneAnimator == Cardinality(ActiveLoops) <= 1

\* a second spin thread is in its loop after the first one has ended
SecondAnimatorRuns ==
    /\ Len(anim) = 2
    /\ anim[1].pc = "done"
    /\ anim[2].pc \in InLoop
    /\ \E c \in Callers : pc[c] = "start_cas"

\* C2: while the stack is non-empty and no start is between its push and its
\* compare-exchange, a spin thread is inside its loop
AnimatorKeepsRunning ==
    (tasks # <<>> /\ \A c \in Callers : pc[c] # "start_cas")
        => ActiveLoops # {}

\* C3: as long as every end found a task to pop, the stack length is the
\* number of starts minus the number of ends
LengthIsStartsMinusEnds == ~misnested => Len(tasks) = nStarts - nEnds

\* a properly nested run of at least two starts has returned to empty
NestedRunFinished ==
    /\ ~misnested
    /\ nStarts >= 2
    /\ nEnds = nStarts
    /\ tasks = <<>>
    /\ \A c \in Callers : pc[c] = "idle"

\* C4: if the stack stays empty from some point on, the flag ends false and no
\* spin thread stays in its loop; a spin thread leaves its loop only on a
\* pass that found the stack empty while it held the lock
AnimatorStops ==
    /\ <>[](tasks = <<>>) => <>[](SPINNING = FALSE /\ ActiveLoops = {})
    /\ [][\A a \in 1..Len(anim) :
            (anim[a].pc \in InLoop /\ anim'[a].pc \notin InLoop)
                => (tasks = <<>> /\ lock = -a)]_vars

\* a spin thread has ended after tasks were started and ended
AnimatorHasStopped ==
    /\ Len(anim) >= 1
    /\ \A a \in 1..Len(anim) : anim[a].pc = "done"
    /\ SPINNING = FALSE
    /\ tasks = <<>>
    /\ nEnds >= 1

\* C5: the push of a start adds one task with row_offset 0 at the end and
\* raises the row_offset of every earlier task, in place, by exactly 1
PushShiftsRows ==
    [][\A c \in Callers : StartStepOf(c) =>
            /\ Len(tasks') = Len(tasks) + 1
            /\ tasks'[Len(tasks')].row_offset = 0
            /\ \A i \in 1..Len(tasks) :
                   tasks'[i].row_offset = tasks[i].row_offset + 1]_vars

\* a start has just pushed onto a stack that already held two tasks
PushedOntoTwo ==
    /\ \E c \in Callers : pc[c] = "start_cas"
    /\ Len(tasks) >= 3
    /\ tasks[1].row_offset >= 2

\* the number of rows a write sequence moves the cursor up (0 if it does not)
RowsUp(o) ==
    IF \E i \in 1..Len(o) : o[i].op = "ESC[nA"
    THEN (o[CHOOSE i \in 1..Len(o) : o[i].op = "ESC[nA"]).n
    ELSE 0

\* C6: the row an end uses for the popped task is the number of pushes made
\* after that task's own push
EndRowCountsLaterPushes ==
    [][\A c \in Callers : (EndStepOf(c) /\ tasks # <<>>) =>
            RowsUp(out') = nStarts - born[Len(born)]]_vars

\* an end has moved up 2 rows for the last open task: both later tasks had
\* already been ended
EndedAboveTwoClosedTasks ==
    /\ \E c \in Callers : pc[c] = "end_ret"
    /\ tasks = <<>>
    /\ ~misnested
    /\ RowsUp(out) = 2

CursorOps == {"ESC[s", "ESC[u", "ESC[K", "ESC[nA", "ESC[nB", "ESC[nD", "ESC[nG"}

\* caller c calls __end_task__ and returns from it or panics in it
EndCallOf(c) == pc[c] = "idle" /\ pc'[c] \in {"end_ret", "end_panicked"}

\* C7: an end called on the empty stack never panics: it completes with the
\* plain print, leaves the stack empty and the flag as it was, and spawns
\* nothing
EmptyEndNeverPanics ==
    [][\A c \in Callers : (EndCallOf(c) /\ tasks = <<>>) =>
            /\ pc'[c] = "end_ret"
            /\ tasks' = <<>>
            /\ SPINNING' = SPINNING
            /\ anim' = anim
            /\ Len(out') >= 4
            /\ \E s \in Symbols, m \in Messages :
                   SubSeq(out', 1, 4) = <<Text(s), Text(" "), Text(m), NL>>
            /\ \A i \in 1..Len(out') : out'[i].op \notin CursorOps]_vars

\* the rest of that statement, for the ends that return: an end on the empty
\* stack that returns has written the plain print, left the stack empty and
\* the flag as it was, and spawned nothing
EmptyEndIsHarmless ==
    [][\A c \in Callers : (EndStepOf(c) /\ tasks = <<>>) =>
            /\ tasks' = <<>>
            /\ SPINNING' = SPINNING
            /\ anim' = anim
            /\ Len(out') >= 4
            /\ \E s \in Symbols, m \in Messages :
                   SubSeq(out', 1, 4) = <<Text(s), Text(" "), Text(m), NL>>
            /\ \A i \in 1..Len(out') : out'[i].op \notin CursorOps]_vars

\* an end found the stack empty while the flag was still set
EmptyEndWhileFlagSet ==
    /\ \E c \in Callers : pc[c] = "end_ret"
    /\ misnested
    /\ tasks = <<>>
    /\ Len(out) >= 1
    /\ out[1].op = "text"
    /\ SPINNING = TRUE

\* C8: an end on the empty stack writes exactly symbol, space, message and
\* one newline
EmptyEndWritesOneLine ==
    [][\A c \in Callers : (EndStepOf(c) /\ tasks = <<>>) =>
            \E s \in Symbols, m \in Messages :
                out' = <<Text(s), Text(" "), Text(m), NL>>]_vars

\* C9: while no end has been called, exactly one spin thread has been spawned
\* once any start has executed its compare-exchange, and none before
OneSpawnWithoutEnds ==
    (nEnds = 0) => Len(anim) = (IF StartsPastCas >= 1 THEN 1 ELSE 0)

\* three starts and no end have completed
ThreeStartsNoEnd ==
    /\ nEnds = 0
    /\ nStarts >= 3
    /\ \A c \in Callers : pc[c] = "idle"
    /\ Len(anim) = 1

\* C10: a spin thread is spawned only by the compare-exchange step of a start
\* and only if the stack has been empty since the previous spawn; there are
\* never more spawns than pushes onto an empty stack, and at least one once a
\* start has executed its compare-exchange
SpawnOnlyAfterEmpty ==
    /\ [][Len(anim') # Len(anim) =>
            /\ \E c \in Callers : pc[c] = "start_cas" /\ pc'[c] = "start_ret"
            /\ Len(anim') = Len(anim) + 1
            /\ emptied]_vars
    /\ [](/\ Len(anim) <= refills
          /\ StartsPastCas >= 1 => Len(anim) >= 1)

\* start, start, end, end has run with the stack non-empty throughout, and
\* the one spin thread has shut down
NestedPairOneAnimator ==
    /\ refills = 1
    /\ ~misnested
    /\ nStarts >= 2
    /\ nEnds = nStarts
    /\ Len(anim) = 1
    /\ anim[1].pc = "done"

\* spin thread a takes the step that repaints the open tasks
RenderStepOf(a) == anim[a].pc = "check" /\ anim'[a].pc = "drop"

\* the threads inside a start call, an end call or a render pass
CallersInCall == {c \in Callers : pc[c] # "idle"}
SpinsInPass == {a \in 1..Len(anim) : anim[a].pc \in {"check", "drop"}}

\* C11: every thread inside a start call, an end call or a render pass holds
\* the lock, so no two of them overlap, and every write is made by the holder
OperationsHoldLock ==
    /\ [](/\ \A c \in CallersInCall : lock = c
          /\ \A a \in SpinsInPass : lock = 0 - a
          /\ Cardinality(CallersInCall) + Cardinality(SpinsInPass) <= 1)
    /\ [][out' # out => (lock' # 0 /\ lock \in {0, lock'})]_vars

\* a caller waits outside its call while a spin thread is inside a render
\* pass that has written
CallerIdleDuringPass ==
    /\ \E a \in 1..Len(anim) : anim[a].pc = "drop" /\ lock = 0 - a
    /\ \A c \in Callers : pc[c] = "idle"
    /\ Len(tasks) >= 2
    /\ nEnds >= 1

\* the number of newlines in a write sequence
NewlinesIn(o) == Cardinality({i \in 1..Len(o) : o[i] = NL})

\* the lines, counted up from the cursor's line at the start of the writes,
\* on which o writes the text s
LinesOf(o, s) ==
    [k \in 1..Cardinality({i \in 1..Len(o) : o[i] = Text(s)}) |->
        LET i == CHOOSE j \in 1..Len(o) :
                    /\ o[j] = Text(s)
                    /\ Cardinality({h \in 1..j : o[h] = Text(s)}) = k
        IN  0 - CursorBefore(o, i).y]

\* C12: between operations every open task's line is row_offset lines above
\* the cursor's line; a render pass paints each task on its own line and an
\* end writes the symbol on the popped task's line; only start writes a
\* newline while tasks are open, and it writes exactly one
RowOffsetTracksLines ==
    /\ [](lock = 0 =>
            /\ Len(below) = Len(tasks)
            /\ \A i \in 1..Len(tasks) : below[i] = tasks[i].row_offset)
    /\ [][/\ \A a \in 1..Len(anim) : RenderStepOf(a) =>
                /\ LinesOf(out', anim[a].spinner) = below
                /\ NewlinesIn(out') = 0
          /\ \A c \in Callers : (EndStepOf(c) /\ tasks # <<>>) =>
                /\ \E sym \in Symbols :
                       LinesOf(out', sym) = <<below[Len(below)]>>
                /\ tasks' # <<>> => NewlinesIn(out') = 0
          /\ \A c \in Callers : StartStepOf(c) => NewlinesIn(out') = 1]_vars

\* a render pass has painted three open tasks, the root two lines above the
\* line of a task started after an earlier one was ended
PaintedThreeLines ==
    /\ \E a \in 1..Len(anim) : anim[a].pc = "drop"
    /\ Len(tasks) = 3
    /\ tasks[1].row_offset = 3
    /\ Len(out) >= 1
    /\ out[Len(out)] = RestoreCursor

\* C13: an end that pops a task writes ESC[u exactly when the task's
\* row_offset is above 0; at row_offset 0 it writes no ESC[nA and leaves the
\* cursor on that line right after the message
EndRestoresIffAbove ==
    [][\A c \in Callers : (EndStepOf(c) /\ tasks # <<>>) =>
        LET row == tasks[Len(tasks)].row_offset
            body == IF tasks' = <<>> THEN DropLast(out') ELSE out'
        IN  /\ (\E i \in 1..Len(out') : out'[i] = RestoreCursor) <=> row > 0
            /\ row = 0 =>
                /\ \A i \in 1..Len(out') : out'[i].op # "ESC[nA"
                /\ \E m \in Messages :
                    /\ body[Len(body)] = Text(m)
                    /\ CursorAfter(body).y = 0
                    /\ CursorAfter(body).x = Len(tasks') * 5 + 3 + Width(m)]_vars

\* an end has closed the bottom line's task, leaving its parent open, and
\* has not restored the cursor
EndedBottomTaskUnderParent ==
    /\ \E c \in Callers : pc[c] = "end_ret"
    /\ tasks # <<>>
    /\ Len(out) >= 1
    /\ out[1] = SaveCursor
    /\ \A i \in 1..Len(out) : out[i] # RestoreCursor

\* the columns at which o writes the text s, in order
ColumnsOf(o, s) ==
    [k \in 1..Cardinality({i \in 1..Len(o) : o[i] = Text(s)}) |->
        LET i == CHOOSE j \in 1..Len(o) :
                    /\ o[j] = Text(s)
                    /\ Cardinality({h \in 1..j : o[h] = Text(s)}) = k
        IN  CursorBefore(o, i).x]

\* C14: start writes the new task's marker, a render pass the spinner of the
\* task at index d, and end the symbol of the popped task at column d*5+1,
\* d the task's depth in the stack
MarkerColumnsAgree ==
    [][/\ \A c \in Callers : StartStepOf(c) =>
            CursorBefore(out', MarkerIndex(out')).x = (Len(tasks') - 1) * 5 + 1
       /\ \A a \in 1..Len(anim) : RenderStepOf(a) =>
            ColumnsOf(out', anim[a].spinner)
                = [d \in 1..Len(tasks) |-> (d - 1) * 5 + 1]
       /\ \A c \in Callers : (EndStepOf(c) /\ tasks # <<>>) =>
            \E sym \in Symbols :
                ColumnsOf(out', sym) = <<(Len(tasks) - 1) * 5 + 1>>]_vars

\* an end has closed a task at depth 2 (column 11)
EndedAtDepthTwo ==
    /\ \E c \in Callers : pc[c] = "end_ret"
    /\ Len(tasks) = 2
    /\ \E i \in 1..Len(out) : out[i] = CursorColumn(11)

\* C15: an end that pops a task writes one newline, as its last write, if the
\* pop emptied the stack, and no newline otherwise
EndClosesTreeWithNewline ==
    [][\A c \in Callers : (EndStepOf(c) /\ tasks # <<>>) =>
        /\ NewlinesIn(out') = (IF tasks' = <<>> THEN 1 ELSE 0)
        /\ tasks' = <<>> => out'[Len(out')] = NL]_vars

\* the outermost end of a nested, properly ended tree has written its newline
OutermostEndWroteNewline ==
    /\ \E c \in Callers : pc[c] = "end_ret"
    /\ tasks = <<>>
    /\ ~misnested
    /\ nStarts >= 2
    /\ nEnds = nStarts
    /\ out[1] = SaveCursor
    /\ out[Len(out)] = NL

\* C16: a spin thread holds the lock only between taking it at the top of
\* its loop and dropping it: not while it sleeps, and not once it has left
\* the loop to clear the flag
SpinSleepsUnlocked ==
    /\ [](\A a \in 1..Len(anim) :
            anim[a].pc \in {"top", "sleep", "store", "done"} => lock # 0 - a)
    /\ [][\A a \in 1..Len(anim) :
            (anim[a].pc \in {"check", "drop"}
             /\ anim'[a].pc \in {"sleep", "store"}) => lock' = 0]_vars

\* a caller is inside a call while the spin thread sleeps
CallerRunsDuringSleep ==
    /\ \E a \in 1..Len(anim) : anim[a].pc = "sleep"
    /\ \E c \in Callers : pc[c] # "idle" /\ lock = c

\* the 4-frame rotation
Frames == <<"-", "\\", "|", "/">>
FrameIndex(g) == CHOOSE k \in 1..4 : Frames[k] = g
FrameAfter(g) == Frames[(FrameIndex(g) % 4) + 1]
FrameTexts(o) == {i \in 1..Len(o) : \E k \in 1..4 : o[i] = Text(Frames[k])}

\* C17: each render pass paints every open task with the one current glyph
\* and moves the glyph one frame on in the rotation - \ | /, whatever the
\* number of tasks; no other step changes it; a new spin thread starts at -;
\* four frames on the glyph is the same again
SpinnerRotates ==
    /\ [](\A a \in 1..Len(anim) :
            /\ \E k \in 1..4 : anim[a].spinner = Frames[k]
            /\ NextSpinner(NextSpinner(NextSpinner(NextSpinner(anim[a].spinner))))
                   = anim[a].spinner)
    /\ [][/\ \A a \in 1..Len(anim) :
               IF RenderStepOf(a)
               THEN /\ anim'[a].spinner = FrameAfter(anim[a].spinner)
                    /\ Cardinality(FrameTexts(out')) = Len(tasks)
                    /\ \A i \in FrameTexts(out') : out'[i] = Text(anim[a].spinner)
               ELSE anim'[a].spinner = anim[a].spinner
          /\ Len(anim') > Len(anim) => anim'[Len(anim')].spinner = "-"]_vars

\* a spin thread has just painted two tasks with the fourth frame and is
\* back at the first
SpinnerCameRound ==
    \E a \in 1..Len(anim) :
        /\ anim[a].pc = "drop"
        /\ anim[a].spinner = "-"
        /\ Len(tasks) >= 2
        /\ \E i \in 1..Len(out) : out[i] = Text("/")

\* the connector glyph the screen shows up lines above the cursor's line at
\* column x ("" if none)
GlyphAt(scr, up, x) ==
    IF \E c \in scr : c.up = up /\ c.x = x
    THEN (CHOOSE c \in scr : c.up = up /\ c.x = x).ch
    ELSE ""

\* C18: after a start under an open parent, the parent's connector column
\* shows the leaf on the new line, the branch corner on the line of every
\* earlier child of that parent and the bar on every other line below the
\* parent; after the ESC[s ... ESC[u bracket the cursor is at the first
\* column of the new line
ConnectorColumnDrawn ==
    [][\A c \in Callers : (StartStepOf(c) /\ tasks # <<>>) =>
        LET K == (Len(tasks) - 1) * 5 + 3
            R == tasks'[Len(tasks)].row_offset
            childLines == {nStarts' - b : b \in kids[Len(kids)]}
            j == CHOOSE i \in 1..Len(out') : out'[i] = RestoreCursor
        IN  /\ GlyphAt(screen', 0, K) = LeafGlyph
            /\ \A r \in 1..(R - 1) :
                   GlyphAt(screen', r, K)
                       = (IF r \in childLines THEN BranchGlyph ELSE BarGlyph)
            /\ \E i \in 1..Len(out') : out'[i] = SaveCursor
            /\ \E i \in 1..Len(out') : out'[i] = RestoreCursor
            /\ CursorBefore(out', j + 1).y = 1
            /\ CursorBefore(out', j + 1).x = 1]_vars

\* C19: the row_offsets on the stack are non-negative and strictly decreasing
\* from the root, each the number of pushes since the task's own; end removes
\* the last task, which has the smallest row_offset and is the latest started
\* of the open ones
RowOffsetsDecrease ==
    /\ [](/\ Len(born) = Len(tasks)
          /\ \A i \in 1..Len(tasks) :
                /\ tasks[i].row_offset >= 0
                /\ tasks[i].row_offset = nStarts - born[i]
                /\ \A j \in (i + 1)..Len(tasks) :
                       tasks[i].row_offset > tasks[j].row_offset)
    /\ [][\A c \in Callers : (EndStepOf(c) /\ tasks # <<>>) =>
            /\ tasks' = SubSeq(tasks, 1, Len(tasks) - 1)
            /\ \A i \in 1..Len(tasks) :
                   /\ tasks[Len(tasks)].row_offset <= tasks[i].row_offset
                   /\ born[Len(tasks)] >= born[i]]_vars

\* an end has removed the last of three tasks, and the two left are not on
\* neighbouring lines
EndedLastOfThree ==
    /\ \E c \in Callers : pc[c] = "end_ret"
    /\ Len(tasks) = 2
    /\ tasks[1].row_offset >= 3
    /\ tasks[2].row_offset >= 1

\* C20: an end call removes at most the last task and leaves the rest of the
\* stack, the flag and the spin threads as they were; a step of a spin thread
\* leaves the stack as it was
EndTouchesOnlyTop ==
    [][/\ \A c \in Callers : EndStepOf(c) =>
            /\ Len(tasks') \in {Len(tasks), Len(tasks) - 1}
            /\ Len(tasks') = Len(tasks) => tasks = <<>>
            /\ tasks' = SubSeq(tasks, 1, Len(tasks'))
            /\ SPINNING' = SPINNING
            /\ anim' = anim
       /\ \A c \in Callers : (pc[c] = "end_ret" /\ pc'[c] = "idle") =>
            /\ tasks' = tasks
            /\ SPINNING' = SPINNING
            /\ anim' = anim
       /\ \A a \in 1..Len(anim) : anim'[a] # anim[a] => tasks' = tasks]_vars

\* an end has popped one of three tasks while the flag is set
EndedOneOfThree ==
    /\ \E c \in Callers : pc[c] = "end_ret"
    /\ Len(tasks) = 2
    /\ SPINNING = TRUE
    /\ \E a \in 1..Len(anim) : anim[a].pc = "sleep"

====
